---- MODULE Spec2Model ----
(***************************************************************************)
(* Model of hooks/automotive/tk-multi-publish2/upload_version_standalone.py *)
(* (class UploadVersionPlugin): the accept / validate / publish hook of a  *)
(* publish plugin.  One plugin instance is called repeatedly by the host   *)
(* publisher; publish() is modelled statement by statement, one action per *)
(* external call, so that the order of the calls and the effect of an      *)
(* exception raised by any of them can be observed.                        *)
(***************************************************************************)
EXTENDS Naturals, Sequences, FiniteSets

VARIABLES
    plugin_icon,      \* self.plugin_icon ("unset" while the attribute is missing)
    pc,               \* position of the running call ("idle" between calls)
    op,               \* the call in progress or last finished: accept / validate / publish
    settings,         \* the settings argument of that call
    item,             \* the item argument of that call
    loads,            \* what load_framework returns during that call, per framework
    ret,              \* return value of the last accept() / validate()
    logged,           \* messages logged at error level by that call
    calls,            \* external calls made by the running publish(), in order
    package_path,     \* publish() local
    thumbnail_path,   \* publish() local
    returned,         \* what LMVTranslator.package() / extract_thumbnail() returned
    output_directory, \* the translator's temporary directory: none / exists / removed
    manifest,         \* status of the last manifest returned by get_manifest
    job,              \* status of the remote translation job (owned by the cloud service)
    raisedAt          \* the call whose exception ended publish(), "-" if none

vars == << plugin_icon, pc, op, settings, item, loads, ret, logged, calls,
           package_path, thumbnail_path, returned, output_directory,
           manifest, job, raisedAt >>

----------------------------------------------------------------------------
(* Bounds *)

\* get_manifest calls kept in the recorded call history; further polls of
\* the same loop are made but no longer appended.
MaxPolls == 3

----------------------------------------------------------------------------
(* Values *)

NoPath == "None"

ICON_REVIEW == "icons/review.png"
ICON_3D_MODEL == "icons/3d_model.png"
NO_PREVIEW_VRED == "icons/no_preview_vred.png"

ITEM_THUMBNAIL == "item/thumbnail.png"
LMV_PACKAGE == "tmp/lmv/package.zip"
LMV_THUMBNAIL == "tmp/lmv/thumbnail.png"

FRAMEWORK_LMV == "tk-framework-lmv_v0.1.x"
FRAMEWORK_FORGE == "tk-framework-forge_v0.1.x"

\* "Translation Worker" is a free string; "other" stands for every value
\* that is neither "local" nor "forge".
Workers == {"local", "forge", "other"}

Settings == [v3d : BOOLEAN, worker : Workers, upload : BOOLEAN]

item_filters == {"file.alias", "file.vred"}

Items == [thumbnail : {NoPath, ITEM_THUMBNAIL}, type_spec : item_filters]

Loads == [lmv : BOOLEAN, forge : BOOLEAN]

PendingStatuses == {"pending", "inprogress"}
FinalStatuses == {"success", "failed", "timeout"}

ERR_NO_LMV == "Could not run LMV translation: missing ATF framework"
ERR_NO_FORGE == "Could not load Forge framework"
ERR_WORKER == "Unknown Translation Worker"
ERR_MANIFEST == "Forge Cloud Translation -- manifest failed"

----------------------------------------------------------------------------
(* Pure parts of the hook *)

\* icon property: the attribute set by accept() if present, else review.png
icon == IF plugin_icon # "unset" THEN plugin_icon ELSE ICON_REVIEW

AcceptIcon_Resets(v3d, cur) == IF v3d = TRUE THEN ICON_3D_MODEL ELSE "unset"

\* accept(): self.plugin_icon is assigned only when "3D Version" is True
AcceptIcon(v3d, cur) == IF v3d = TRUE THEN ICON_3D_MODEL ELSE cur

AcceptLogged_Silent(worker) == {}

\* accept(): the error logged for the worker value (debug messages are not kept)
AcceptLogged(worker) ==
    IF worker = "local" THEN {}
    ELSE IF worker = "forge" THEN {}
    ELSE {ERR_WORKER}

ACCEPTED == "accepted=True,checked=True"

ValidateResult_LmvOnly(l) == l.lmv

\* validate(): True only when both frameworks loaded
ValidateResult(l) ==
    IF ~l.lmv THEN FALSE
    ELSE IF ~l.forge THEN FALSE
    ELSE TRUE

\* validate(): the error logged; the forge framework is not loaded when lmv failed
ValidateLogged(l) ==
    IF ~l.lmv THEN {ERR_NO_LMV}
    ELSE IF ~l.forge THEN {ERR_NO_FORGE}
    ELSE {}

BoolStr(b) == IF b THEN "True" ELSE "False"

----------------------------------------------------------------------------
(* State *)

NoSettings == [v3d |-> TRUE, worker |-> "local", upload |-> FALSE]
NoItem == [thumbnail |-> NoPath, type_spec |-> "file.alias"]
NoReturn == [package |-> NoPath, thumbnail |-> NoPath]

Init ==
    /\ plugin_icon = "unset"
    /\ pc = "idle"
    /\ op = "none"
    /\ settings = NoSettings
    /\ item = NoItem
    /\ loads = [lmv |-> TRUE, forge |-> TRUE]
    /\ ret = "none"
    /\ logged = {}
    /\ calls = << >>
    /\ package_path = NoPath
    /\ thumbnail_path = NoPath
    /\ returned = NoReturn
    /\ output_directory = "none"
    /\ manifest = "none"
    /\ job = "none"
    /\ raisedAt = "-"

\* The per-call locals and records as they are when a call starts.
FreshCall(o, s, i, l) ==
    /\ op' = o
    /\ settings' = s
    /\ item' = i
    /\ loads' = l
    /\ calls' = << >>
    /\ package_path' = NoPath
    /\ thumbnail_path' = NoPath
    /\ returned' = NoReturn
    /\ output_directory' = "none"
    /\ manifest' = "none"
    /\ job' = "none"
    /\ raisedAt' = "-"

Accept ==
    /\ pc = "idle"
    /\ \E s \in Settings, i \in Items :
        /\ FreshCall("accept", s, i, loads)
        /\ plugin_icon' = AcceptIcon(s.v3d, plugin_icon)
        /\ logged' = AcceptLogged(s.worker)
    /\ ret' = ACCEPTED
    /\ pc' = "idle"

Validate ==
    /\ pc = "idle"
    /\ \E s \in Settings, i \in Items, l \in Loads :
        /\ FreshCall("validate", s, i, l)
        /\ logged' = ValidateLogged(l)
        /\ ret' = BoolStr(ValidateResult(l))
    /\ pc' = "idle"
    /\ UNCHANGED plugin_icon

----------------------------------------------------------------------------
(* publish(): control flow *)

Call(name, arg) == [call |-> name, arg |-> arg]

CountCalls(name) == Cardinality({k \in DOMAIN calls : calls[k].call = name})

\* The call history with one more call (get_manifest is kept MaxPolls times).
Record(name, arg) ==
    IF name = "get_manifest" /\ CountCalls("get_manifest") >= MaxPolls
    THEN calls
    ELSE Append(calls, Call(name, arg))

PublishBranch_WorkerStrict(s, i) ==
    IF s.v3d = TRUE
    THEN IF s.worker = "local" THEN "translate3d"
         ELSE IF s.worker = "forge" THEN "debug_attach"
         ELSE "done"
    ELSE IF i.thumbnail # NoPath THEN "upload_existing" ELSE "translate2d"

\* The branch publish() takes after the base class created the Version:
\* local 3D, cloud 3D (every worker other than "local"), or 2D with or
\* without an existing thumbnail.
PublishBranch(s, i) ==
    IF s.v3d = TRUE
    THEN IF s.worker = "local" THEN "translate3d" ELSE "debug_attach"
    ELSE IF i.thumbnail # NoPath THEN "upload_existing" ELSE "translate2d"

PackageThumbnail_NoDefault(thumb, type_spec) == thumb

\* _translate_file_to_lmv: the default image replaces a missing thumbnail of a vred file
PackageThumbnail(thumb, type_spec) ==
    IF thumb = NoPath /\ type_spec = "file.vred" THEN NO_PREVIEW_VRED ELSE thumb

ExtractedThumbnail_AlwaysDefault(thumb, type_spec) ==
    IF thumb = NoPath THEN NO_PREVIEW_VRED ELSE thumb

\* _get_thumbnail_from_lmv: same default, otherwise the Version gets no media
ExtractedThumbnail(thumb, type_spec) ==
    IF thumb = NoPath
    THEN IF type_spec = "file.vred" THEN NO_PREVIEW_VRED ELSE thumb
    ELSE thumb

NeedsThumbnailUpload_Always(item_thumb, thumb) == thumb # NoPath

\* local 3D: "if not item.get_thumbnail_as_path() and thumbnail_path"
NeedsThumbnailUpload(item_thumb, thumb) == item_thumb = NoPath /\ thumb # NoPath

AfterUploadExisting_Cleans == "rmtree2d"

\* 2D with an existing thumbnail: nothing follows the upload
AfterUploadExisting == "done"

AfterUploads3D_KeepsDirectory == "done"

\* local 3D: rmtree follows the uploads
AfterUploads3D == "rmtree3d"

CloudNext_JobBeforeUpload(p) ==
    CASE p = "load_forge" -> "authenticate"
      [] p = "authenticate" -> "create_bucket"
      [] p = "create_bucket" -> "post_job"
      [] p = "post_job" -> "upload_file"
      [] p = "upload_file" -> "poll"
      [] OTHER -> "close"

\* cloud 3D: the statement that follows each cloud-client call
CloudNext(p) ==
    CASE p = "load_forge" -> "authenticate"
      [] p = "authenticate" -> "create_bucket"
      [] p = "create_bucket" -> "upload_file"
      [] p = "upload_file" -> "post_job"
      [] p = "post_job" -> "poll"
      [] OTHER -> "close"

JobFinished_PendingOnly(status) == status # "pending"

\* poll loop: job_finished = status != "pending" and status != "inprogress"
JobFinished(status) == status # "pending" /\ status # "inprogress"

ManifestSucceeded_NotFailed(status) == status # "none" /\ status # "failed"

\* "if manifest and manifest["status"] == "success"
ManifestSucceeded(status) == status # "none" /\ status = "success"

----------------------------------------------------------------------------
(* publish(): one action per statement that calls out *)

Locals == << package_path, thumbnail_path, returned, output_directory, manifest, job >>
Frame == << plugin_icon, op, settings, item, loads, ret >>

\* An external call that returns: recorded, control moves on.
Returns(name, arg, next) ==
    /\ calls' = Record(name, arg)
    /\ pc' = next
    /\ UNCHANGED raisedAt

\* An external call that raises: nothing in publish() catches it.
Raises(name, arg) ==
    /\ calls' = Record(name, arg)
    /\ pc' = "raised"
    /\ raisedAt' = name

PublishStart ==
    /\ pc = "idle"
    /\ \E s \in Settings, i \in Items, l \in Loads : FreshCall("publish", s, i, l)
    /\ ret' = "none"
    /\ logged' = {}
    /\ pc' = "base_publish"
    /\ UNCHANGED plugin_icon

\* super().publish(settings, item): creates the Version
BasePublish ==
    /\ pc = "base_publish"
    /\ \/ Returns("base_publish", "-", PublishBranch(settings, item))
       \/ Raises("base_publish", "-")
    /\ UNCHANGED << Frame, Locals, logged >>

\* load_framework + LMVTranslator(path).translate(), at pc p
Translate(p, next) ==
    /\ pc = p
    /\ \/ /\ loads.lmv
          /\ Returns("translate", "-", next)
          /\ output_directory' = "exists"
       \/ /\ loads.lmv
          /\ Raises("translate", "-")
          /\ output_directory' \in {"none", "exists"}
       \/ /\ ~loads.lmv     \* None.import_module
          /\ Raises("load_framework", FRAMEWORK_LMV)
          /\ UNCHANGED output_directory
    /\ UNCHANGED << Frame, logged, package_path, thumbnail_path, returned, manifest, job >>

Translate3D == Translate("translate3d", "package")

\* lmv_translator.package(...) and the rest of _translate_file_to_lmv
Package ==
    /\ pc = "package"
    /\ \/ \E t \in {NoPath, LMV_THUMBNAIL, item.thumbnail} :
            /\ Returns("package", item.thumbnail, "upload_package")
            /\ returned' = [package |-> LMV_PACKAGE, thumbnail |-> t]
            /\ package_path' = LMV_PACKAGE
            /\ thumbnail_path' = PackageThumbnail(t, item.type_spec)
       \/ /\ Raises("package", item.thumbnail)
          /\ UNCHANGED << returned, package_path, thumbnail_path >>
    /\ UNCHANGED << Frame, logged, output_directory, manifest, job >>

UploadPackage ==
    /\ pc = "upload_package"
    /\ \/ Returns("sg_upload", package_path, "update_translation_type")
       \/ Raises("sg_upload", package_path)
    /\ UNCHANGED << Frame, Locals, logged >>

UpdateTranslationType ==
    /\ pc = "update_translation_type"
    /\ \/ Returns("sg_update", "sg_translation_type",
                  IF NeedsThumbnailUpload(item.thumbnail, thumbnail_path)
                  THEN "upload_thumbnail3d" ELSE AfterUploads3D)
       \/ Raises("sg_update", "sg_translation_type")
    /\ UNCHANGED << Frame, Locals, logged >>

UploadThumbnail3D ==
    /\ pc = "upload_thumbnail3d"
    /\ \/ Returns("sg_upload_thumbnail", thumbnail_path, AfterUploads3D)
       \/ Raises("sg_upload_thumbnail", thumbnail_path)
    /\ UNCHANGED << Frame, Locals, logged >>

\* shutil.rmtree(output_directory), at pc p
Rmtree(p) ==
    /\ pc = p
    /\ \/ /\ Returns("rmtree", "-", "done")
          /\ output_directory' = "removed"
       \/ /\ Raises("rmtree", "-")
          /\ UNCHANGED output_directory
    /\ UNCHANGED << Frame, logged, package_path, thumbnail_path, returned, manifest, job >>

Rmtree3D == Rmtree("rmtree3d")

----------------------------------------------------------------------------
(* publish(): cloud 3D branch *)

\* ptvsd.enable_attach / wait_for_attach: blocks until a debugger attaches
DebugAttach ==
    /\ pc = "debug_attach"
    /\ \/ Returns("wait_for_attach", "-", "load_forge")
       \/ Raises("wait_for_attach", "-")
    /\ UNCHANGED << Frame, Locals, logged >>

\* load_framework: a missing framework is logged, then dereferenced
LoadForge ==
    /\ pc = "load_forge"
    /\ \/ /\ loads.forge
          /\ Returns("load_framework", FRAMEWORK_FORGE, CloudNext("load_forge"))
          /\ UNCHANGED logged
       \/ /\ ~loads.forge
          /\ Raises("load_framework", FRAMEWORK_FORGE)
          /\ logged' = logged \cup {ERR_NO_FORGE}
    /\ UNCHANGED << Frame, Locals >>

\* a cloud-client call without a result the hook branches on
CloudCall(p, name) ==
    /\ pc = p
    /\ \/ Returns(name, "-", CloudNext(p))
       \/ Raises(name, "-")
    /\ UNCHANGED << Frame, logged, package_path, thumbnail_path, returned,
                    output_directory, manifest >>

Authenticate == CloudCall("authenticate", "authenticate") /\ UNCHANGED job
CreateBucket == CloudCall("create_bucket", "create_bucket") /\ UNCHANGED job
UploadFile == CloudCall("upload_file", "upload_file") /\ UNCHANGED job

\* post_job starts the remote translation job
PostJob ==
    /\ CloudCall("post_job", "post_job")
    /\ job' = IF pc' = "raised" THEN job ELSE "pending"

\* one iteration of "while not job_finished"
GetManifest ==
    /\ pc = "poll"
    /\ \/ /\ Returns("get_manifest", job,
                     IF JobFinished(job) THEN "check_manifest" ELSE "poll")
          /\ manifest' = job
       \/ /\ Raises("get_manifest", "-")
          /\ UNCHANGED manifest
    /\ UNCHANGED << Frame, logged, package_path, thumbnail_path, returned,
                    output_directory, job >>

\* the if / else after the loop
CheckManifest ==
    /\ pc = "check_manifest"
    /\ \/ /\ ManifestSucceeded(manifest)
          /\ \/ Returns("sg_update", "sg_urn", CloudNext("check_manifest"))
             \/ Raises("sg_update", "sg_urn")
          /\ UNCHANGED logged
       \/ /\ ~ManifestSucceeded(manifest)
          /\ logged' = logged \cup {ERR_MANIFEST}
          /\ pc' = CloudNext("check_manifest")
          /\ UNCHANGED << calls, raisedAt >>
    /\ UNCHANGED << Frame, Locals >>

CloseConnection ==
    /\ pc = "close"
    /\ \/ Returns("close_connection", "-", "done")
       \/ Raises("close_connection", "-")
    /\ UNCHANGED << Frame, Locals, logged >>

\* The cloud service works on the job while publish() polls.
JobAdvance ==
    /\ pc = "poll"
    /\ \/ job = "pending" /\ job' \in {"inprogress"} \cup FinalStatuses
       \/ job = "inprogress" /\ job' \in FinalStatuses
    /\ UNCHANGED << Frame, logged, calls, pc, raisedAt, package_path,
                    thumbnail_path, returned, output_directory, manifest >>

----------------------------------------------------------------------------
(* publish(): 2D branch *)

UploadExisting ==
    /\ pc = "upload_existing"
    /\ \/ /\ Returns("sg_upload", item.thumbnail, AfterUploadExisting)
          /\ thumbnail_path' = item.thumbnail
       \/ /\ Raises("sg_upload", item.thumbnail)
          /\ thumbnail_path' = item.thumbnail
    /\ UNCHANGED << Frame, logged, package_path, returned, output_directory,
                    manifest, job >>

Translate2D == Translate("translate2d", "extract")

\* lmv_translator.extract_thumbnail() and the rest of _get_thumbnail_from_lmv
ExtractThumbnail ==
    /\ pc = "extract"
    /\ \/ \E t \in {NoPath, LMV_THUMBNAIL} :
            /\ returned' = [package |-> NoPath, thumbnail |-> t]
            /\ thumbnail_path' = ExtractedThumbnail(t, item.type_spec)
            /\ Returns("extract_thumbnail", "-",
                       IF thumbnail_path' # NoPath THEN "upload_extracted" ELSE "rmtree2d")
       \/ /\ Raises("extract_thumbnail", "-")
          /\ UNCHANGED << returned, thumbnail_path >>
    /\ UNCHANGED << Frame, logged, package_path, output_directory, manifest, job >>

UploadExtracted ==
    /\ pc = "upload_extracted"
    /\ \/ Returns("sg_upload", thumbnail_path, "upload_thumbnail2d")
       \/ Raises("sg_upload", thumbnail_path)
    /\ UNCHANGED << Frame, Locals, logged >>

UploadThumbnail2D ==
    /\ pc = "upload_thumbnail2d"
    /\ \/ Returns("sg_upload_thumbnail", thumbnail_path, "rmtree2d")
       \/ Raises("sg_upload_thumbnail", thumbnail_path)
    /\ UNCHANGED << Frame, Locals, logged >>

Rmtree2D == Rmtree("rmtree2d")

\* publish() is over (returned None or raised); the host makes its next call
Return ==
    /\ pc \in {"done", "raised"}
    /\ pc' = "idle"
    /\ UNCHANGED << Frame, Locals, logged, calls, raisedAt >>

----------------------------------------------------------------------------

Next ==
    \/ Accept
    \/ Validate
    \/ PublishStart
    \/ BasePublish
    \/ Translate3D
    \/ Package
    \/ UploadPackage
    \/ UpdateTranslationType
    \/ UploadThumbnail3D
    \/ Rmtree3D
    \/ DebugAttach
    \/ LoadForge
    \/ Authenticate
    \/ CreateBucket
    \/ UploadFile
    \/ PostJob
    \/ GetManifest
    \/ CheckManifest
    \/ CloseConnection
    \/ JobAdvance
    \/ UploadExisting
    \/ Translate2D
    \/ ExtractThumbnail
    \/ UploadExtracted
    \/ UploadThumbnail2D
    \/ Rmtree2D
    \/ Return

Spec == Init /\ [][Next]_vars

\* The interpreter keeps executing a call that is not blocked, and the cloud
\* service keeps working on a job it accepted.
FairSpec ==
    /\ Spec
    /\ WF_vars(GetManifest)
    /\ WF_vars(JobAdvance)

----------------------------------------------------------------------------
(* Observations used by the properties *)

Positions(name) == {k \in DOMAIN calls : calls[k].call = name}

ArgsOf(name) == {calls[k].arg : k \in Positions(name)}

Called(name) == Positions(name) # {}

\* every call named a comes before every call named b
AllBefore(a, b) == \A x \in Positions(a), y \in Positions(b) : x < y

LastCall == IF calls = << >> THEN "-" ELSE calls[Len(calls)].call

InPublish == op = "publish"

\* publish() ran to its end and returned
Completed == op = "publish" /\ pc = "done"

Local3D == settings.v3d /\ settings.worker = "local"
Cloud3D == settings.v3d /\ settings.worker # "local"
Plain2D == ~settings.v3d

TrackingCalls == {"sg_upload", "sg_update", "sg_upload_thumbnail"}

----------------------------------------------------------------------------
(* C1 *)

\* C1: validate() returns False, with an error logged, whenever one of the
\* two frameworks fails to load, and True only when both load, whatever the
\* "3D Version", "Translation Worker" and "Upload" settings are.
C1_ValidateFollowsLoads ==
    op = "validate" =>
        /\ ret \in {"True", "False"}
        /\ (ret = "True") <=> (loads.lmv /\ loads.forge)
        /\ (ret = "False") => logged # {}
        /\ (ret = "True") => logged = {}

C1_Witness ==
    /\ op = "validate"
    /\ ret = "False"
    /\ loads.lmv /\ ~loads.forge
    /\ settings.worker = "other" /\ settings.upload /\ ~settings.v3d

----------------------------------------------------------------------------
(* C2 *)

\* The media a 2D publish has to upload: the item's thumbnail, else the
\* extracted one, else the default image of a vred file, else nothing.
Media2D ==
    IF item.thumbnail # NoPath THEN item.thumbnail
    ELSE IF returned.thumbnail # NoPath THEN returned.thumbnail
    ELSE IF item.type_spec = "file.vred" THEN NO_PREVIEW_VRED
    ELSE NoPath

\* C2 as stated: with "3D Version" false a completed publish() made exactly
\* one upload call, with the item's thumbnail if it has one, else with the
\* thumbnail the translator extracted.
C2_ExactlyOneUpload ==
    (Completed /\ Plain2D) =>
        /\ Cardinality(Positions("sg_upload")) = 1
        /\ ArgsOf("sg_upload") =
              {IF item.thumbnail # NoPath THEN item.thumbnail ELSE returned.thumbnail}

\* C2 amended: with "3D Version" false a completed publish() made at most
\* one upload call: none when the item has no thumbnail, the extraction
\* returned none and the item is not a vred file; otherwise exactly one, with
\* the item's thumbnail if it has one, else the extracted thumbnail, else
\* (vred file) the default no_preview_vred.png image.
C2_AtMostOneUpload ==
    (Completed /\ Plain2D) =>
        /\ Cardinality(Positions("sg_upload")) = (IF Media2D = NoPath THEN 0 ELSE 1)
        /\ ArgsOf("sg_upload") = (IF Media2D = NoPath THEN {} ELSE {Media2D})
        /\ ArgsOf("sg_upload") \subseteq {item.thumbnail, returned.thumbnail, NO_PREVIEW_VRED}
        /\ NoPath \notin ArgsOf("sg_upload")

C2_Witness ==
    /\ Completed /\ Plain2D
    /\ item.thumbnail = NoPath
    /\ returned.thumbnail = NoPath
    /\ item.type_spec = "file.alias"
    /\ Called("extract_thumbnail")
    /\ ~Called("sg_upload")

----------------------------------------------------------------------------
(* C3 *)

\* C3 as stated: with "3D Version" true and the local worker, a completed
\* publish() uploaded the package path and the thumbnail path package()
\* returned, and removed the output directory after those uploads.
C3_ReturnedPathsUploaded ==
    (Completed /\ Local3D) =>
        /\ ArgsOf("sg_upload") = {returned.package}
        /\ ArgsOf("sg_upload_thumbnail") = {returned.thumbnail}
        /\ AllBefore("sg_upload", "rmtree")
        /\ AllBefore("sg_upload_thumbnail", "rmtree")
        /\ output_directory = "removed"

\* C3 amended: with "3D Version" true and the local worker, a completed
\* publish() uploaded exactly the package path package() returned; it
\* uploaded a thumbnail only if the item had none, and then the one package()
\* returned or, when it returned none for a vred file, the default
\* no_preview_vred.png image (no thumbnail upload when neither exists); the
\* output directory was removed after every upload, as the last call.
C3_PackageUploadedThumbnailIfMissing ==
    (Completed /\ Local3D) =>
        /\ Cardinality(Positions("sg_upload")) = 1
        /\ ArgsOf("sg_upload") = {returned.package}
        /\ returned.package # NoPath
        /\ ArgsOf("sg_upload_thumbnail") =
              (IF item.thumbnail # NoPath THEN {}
               ELSE IF returned.thumbnail # NoPath THEN {returned.thumbnail}
               ELSE IF item.type_spec = "file.vred" THEN {NO_PREVIEW_VRED}
               ELSE {})
        /\ Cardinality(Positions("sg_upload_thumbnail")) <= 1
        /\ AllBefore("sg_upload", "rmtree")
        /\ AllBefore("sg_upload_thumbnail", "rmtree")
        /\ LastCall = "rmtree"
        /\ output_directory = "removed"

C3_Witness ==
    /\ Completed /\ Local3D
    /\ item.thumbnail # NoPath
    /\ returned.thumbnail = LMV_THUMBNAIL
    /\ ~Called("sg_upload_thumbnail")
    /\ output_directory = "removed"

----------------------------------------------------------------------------
(* C5 *)

\* C5 as stated: a completed publish() with "3D Version" true, on either
\* back-end, uploaded a package and a thumbnail to the Version and deleted
\* the temporary output; with "3D Version" false it uploaded a thumbnail as
\* the Version media.
C5_BothUploadedOnEitherBackend ==
    /\ (Completed /\ settings.v3d) =>
          /\ Called("sg_upload")
          /\ Called("sg_upload_thumbnail")
          /\ output_directory = "removed"
    /\ (Completed /\ Plain2D) => Called("sg_upload")

\* C5 amended: a completed publish() with "3D Version" true and the local
\* worker uploaded the package and deleted the temporary output, and uploaded
\* a thumbnail exactly when the item had none and one was available; with any
\* other worker (cloud) it uploaded nothing to the Version and had no
\* temporary output to delete, its only Version change being the sg_urn
\* update of a successful job; with "3D Version" false it uploaded the
\* existing or extracted thumbnail as media when there was one.
C5_WhatACompletedPublishUploaded ==
    /\ (Completed /\ Local3D) =>
          /\ Called("sg_upload")
          /\ Called("sg_upload_thumbnail") <=>
                (item.thumbnail = NoPath /\ thumbnail_path # NoPath)
          /\ Called("rmtree") /\ output_directory = "removed"
    /\ (Completed /\ Cloud3D) =>
          /\ ~Called("sg_upload") /\ ~Called("sg_upload_thumbnail")
          /\ ~Called("translate") /\ ~Called("rmtree")
          /\ output_directory = "none"
          /\ ArgsOf("sg_update") \subseteq {"sg_urn"}
    /\ (Completed /\ Plain2D) =>
          /\ Called("sg_upload") <=> (thumbnail_path # NoPath)
          /\ Called("translate") => output_directory = "removed"

C5_Witness ==
    /\ Completed /\ Cloud3D
    /\ settings.worker = "forge"
    /\ manifest = "success"
    /\ Called("sg_update")
    /\ ~Called("sg_upload")

----------------------------------------------------------------------------
(* C8 *)

TranslatorRan == Called("translate") /\ output_directory # "none"

\* C8: when the translator created its output directory and a later
\* tracking-server call raised, publish() ended with that exception and the
\* directory was not removed; when the translator ran and publish() returned,
\* the directory was removed by exactly one rmtree; rmtree is never called
\* in a run where the translator did not run.
C8_CleanupOnlyOnSuccess ==
    InPublish =>
        /\ (raisedAt \in TrackingCalls /\ TranslatorRan) =>
              /\ pc \in {"raised", "idle"}
              /\ LastCall = raisedAt
              /\ ~Called("rmtree")
              /\ output_directory = "exists"
        /\ (pc = "done" /\ Called("translate")) =>
              /\ Cardinality(Positions("rmtree")) = 1
              /\ output_directory = "removed"
        /\ ~Called("translate") =>
              /\ ~Called("rmtree")
              /\ output_directory = "none"

C8_Witness ==
    /\ InPublish
    /\ pc = "raised"
    /\ raisedAt = "sg_upload_thumbnail"
    /\ output_directory = "exists"
    /\ Plain2D

----------------------------------------------------------------------------
(* C4 *)

UnknownWorker == settings.worker \notin {"local", "forge"}

CloudPositions ==
    {"debug_attach", "load_forge", "authenticate", "create_bucket", "upload_file",
     "post_job", "poll", "check_manifest", "close"}

\* the Version received media: an uploaded file, or the urn of a translation
VersionMedia == Called("sg_upload") \/ "sg_urn" \in ArgsOf("sg_update")

\* C4 as stated: for a worker value other than "local" and "forge", accept()
\* logs an error and returns accepted and checked, validate() does not fail
\* because of it, and a publish() that completes has produced Version media
\* (taken where publish() reads the worker value: "3D Version" true).
C4_UnknownWorkerStillPublishesMedia ==
    UnknownWorker =>
        /\ op = "accept" => (ret = ACCEPTED /\ ERR_WORKER \in logged)
        /\ op = "validate" => ((ret = "True") <=> (loads.lmv /\ loads.forge))
        /\ (Completed /\ settings.v3d) => VersionMedia

\* C4 amended: for a worker value other than "local" and "forge", accept()
\* logs an error and returns accepted and checked, and validate() does not
\* fail because of it; publish() never rejects the value: with "3D Version"
\* true it takes the cloud branch as for "forge" (no tracking-server upload;
\* the Version gets the urn only if the job succeeds) and ends only by
\* returning after close-connection or by an exception of a call it made;
\* with "3D Version" false the value is not read. Version media is not
\* guaranteed.
C4_UnknownWorkerTakesCloudBranch ==
    UnknownWorker =>
        /\ op = "accept" => (ret = ACCEPTED /\ logged = {ERR_WORKER})
        /\ op = "validate" => ((ret = "True") <=> (loads.lmv /\ loads.forge))
        /\ (InPublish /\ settings.v3d) =>
              /\ pc \in CloudPositions \cup {"base_publish", "done", "raised", "idle"}
              /\ ~Called("sg_upload") /\ ~Called("translate")
              /\ ERR_WORKER \notin logged
              /\ pc = "done" =>
                    /\ LastCall = "close_connection"
                    /\ VersionMedia <=> (manifest = "success")
              /\ pc = "raised" => (raisedAt # "-" /\ LastCall = raisedAt)
        /\ (InPublish /\ ~settings.v3d) => pc \notin CloudPositions

C4_Witness ==
    /\ UnknownWorker
    /\ Completed /\ settings.v3d
    /\ manifest = "failed"
    /\ ~VersionMedia
    /\ LastCall = "close_connection"

----------------------------------------------------------------------------
(* C6 *)

AfterLoop == {"check_manifest", "close", "done"}

----------------------------------------------------------------------------
(* C7 *)

\* C7: on the cloud path the Version is updated with sg_urn if and only if
\* the last manifest status is "success"; otherwise an error is logged and
\* the Version is not updated; post_job is called once and get_manifest is
\* not called after the loop; the connection is closed before publish()
\* returns, in both outcomes.
C7_UrnUpdatedIffSuccess ==
    (InPublish /\ Cloud3D /\ pc \in {"close", "done"}) =>
        /\ Called("sg_update") <=> (manifest = "success")
        /\ ArgsOf("sg_update") \subseteq {"sg_urn"}
        /\ Cardinality(Positions("sg_update")) <= 1
        /\ manifest # "success" => ERR_MANIFEST \in logged
        /\ manifest = "success" => logged = {}
        /\ manifest \notin PendingStatuses \cup {"none"}
        /\ Cardinality(Positions("post_job")) = 1
        /\ AllBefore("get_manifest", "sg_update")
        /\ AllBefore("get_manifest", "close_connection")
        /\ calls[Len(calls)].call \in {"get_manifest", "sg_update", "close_connection"}
        /\ pc = "done" =>
              /\ LastCall = "close_connection"
              /\ Cardinality(Positions("close_connection")) = 1

C7_Witness ==
    /\ Completed /\ Cloud3D
    /\ manifest = "timeout"
    /\ ~Called("sg_update")
    /\ ERR_MANIFEST \in logged
    /\ LastCall = "close_connection"

----------------------------------------------------------------------------
(* C9 *)

\* place of each call in the order the cloud path is to follow
Rank(name) ==
    CASE name = "base_publish" -> 0
      [] name = "wait_for_attach" -> 1
      [] name = "load_framework" -> 2
      [] name = "authenticate" -> 3
      [] name = "create_bucket" -> 4
      [] name = "upload_file" -> 5
      [] name = "post_job" -> 6
      [] name = "get_manifest" -> 7
      [] name = "sg_update" -> 8
      [] name = "close_connection" -> 9
      [] OTHER -> 10

CloudClientCalls ==
    {"authenticate", "create_bucket", "upload_file", "post_job", "get_manifest",
     "close_connection"}

\* C9: the base-class publish is the first call, before any upload / update;
\* on the cloud path the calls are authenticate, create-bucket, upload-file,
\* post-job, one or more get-manifest, at most one Version update, and
\* close-connection as the last call, in this order, and no tracking-server
\* upload or upload_thumbnail is made.
C9_CallOrder ==
    (InPublish /\ calls # << >>) =>
        /\ Positions("base_publish") = {1}
        /\ Cloud3D =>
              /\ \A k \in DOMAIN calls : Rank(calls[k].call) < 10
              /\ \A k \in DOMAIN calls : k > 1 =>
                    \/ Rank(calls[k - 1].call) < Rank(calls[k].call)
                    \/ calls[k - 1].call = "get_manifest" /\ calls[k].call = "get_manifest"
              /\ \A c \in CloudClientCalls : Called(c) =>
                    \A b \in CloudClientCalls : Rank(b) < Rank(c) => Called(b)
              /\ Called("sg_update") => Called("get_manifest")
              /\ \A c \in CloudClientCalls \ {"get_manifest"} :
                    Cardinality(Positions(c)) <= 1
              /\ Cardinality(Positions("sg_update")) <= 1
              /\ pc = "done" => LastCall = "close_connection"
              /\ ~Called("sg_upload") /\ ~Called("sg_upload_thumbnail")
        /\ ~Cloud3D => \A c \in CloudClientCalls : ~Called(c)

C9_Witness ==
    /\ Completed /\ Cloud3D
    /\ Cardinality(Positions("get_manifest")) >= 2
    /\ Called("sg_update")
    /\ LastCall = "close_connection"

----------------------------------------------------------------------------
(* C10 *)

AcceptStep == pc = "idle" /\ pc' = "idle" /\ op' = "accept"

\* C10: icon starts as review.png; an accept() with "3D Version" true makes
\* it 3d_model.png; once it is 3d_model.png no call changes it, accept() with
\* "3D Version" false included; accept() always returns accepted and checked.
C10_IconSticky ==
    /\ [](op = "none" => icon = ICON_REVIEW)
    /\ [][ /\ icon = ICON_3D_MODEL => icon' = ICON_3D_MODEL
           /\ AcceptStep => /\ ret' = ACCEPTED
                            /\ settings'.v3d => icon' = ICON_3D_MODEL
                            /\ ~settings'.v3d => icon' = icon
           /\ ~AcceptStep => icon' = icon ]_vars

C10_Witness ==
    /\ op = "accept"
    /\ ~settings.v3d
    /\ icon = ICON_3D_MODEL
    /\ ret = ACCEPTED

====
